---- MODULE Spec2Model ----
(***************************************************************************)
(* Streamable HTTP transport of the MCP server (src/src/http-transport.ts) *)
(* as a state machine: the process-wide session Map, the Session objects   *)
(* it refers to, the periodic TTL sweep, and the POST / GET / DELETE       *)
(* handlers.  Node runs every handler to its next `await` without          *)
(* interleaving, so one action is one run-to-suspension segment.  The only *)
(* suspension at which other events interleave is the tool invocation      *)
(* awaited inside processRequest (readBody's await precedes any access to  *)
(* shared state, so the model starts a POST when its body is complete).    *)
(***************************************************************************)
EXTENDS Integers, Sequences, FiniteSets, Bags, TLC

\* ---------------------------------------------------------------- bounds
MaxSessions == 2      \* UUIDs handed out by randomUUID
MaxEvents   == 2      \* SSE frames emitted per session
MaxTicks    == 2      \* clock advances
MaxInflight == 2      \* POSTs suspended in the tool invocation at once

\* ------------------------------------------------------ program constants
SESSION_TTL_MS   == 1800000
SweepIntervalMs  == 60000
MethodNotFound   == -32601
ApplicationError == -32000

\* ------------------------------------------------------------ JS values
\* `undefined`: an absent header, an absent JSON member
Undefined == [tag |-> "undefined"]
Str(s)    == [tag |-> "string", v |-> s]
Num(n)    == [tag |-> "number", v |-> n]
\* a string whose characters matter, as the sequence of its characters
Chars(cs) == [tag |-> "chars", v |-> cs]
NaN       == [tag |-> "NaN"]

\* JS truthiness
Truthy(v) ==
  CASE v.tag = "undefined" -> FALSE
    [] v.tag = "null"      -> FALSE
    [] v.tag = "NaN"       -> FALSE
    [] v.tag = "string"    -> v.v # ""
    [] v.tag = "chars"     -> v.v # <<>>
    [] v.tag = "number"    -> v.v # 0
    [] OTHER               -> TRUE

\* randomUUID returning the same id every time
randomUUIDFixed(n) == "uuid-1"

\* The ids randomUUID returns, in the order it returns them.  A UUID carries
\* 122 random bits: the model takes each to differ from the ids returned
\* before it, and clients to present only ids the server has issued or ids
\* it never issues (BogusId).
UUIDs == <<"uuid-1", "uuid-2", "uuid-3", "uuid-4">>
SessionIds == {UUIDs[i] : i \in 1..MaxSessions}
BogusId == "bogus"

randomUUID(n) == UUIDs[n + 1]

\* ------------------------------------------------------------------ state
VARIABLES
  sessions,    \* key set of the Map `sessions` (key k maps to heap[k])
  heap,        \* Session objects ever constructed, by id (an object may
               \* outlive its Map entry while a suspended POST refers to it)
  uuidCount,   \* calls of randomUUID so far
  now,         \* Date.now()
  ticks,       \* clock advances so far
  sweepDue,    \* earliest time the setInterval callback runs next
  posts,       \* bag of POST handlers suspended in `await execute(...)`
  streams,     \* ids of the sessions a GET stream is open on
  resp,        \* what the step just taken did on the wire
  emitted,     \* per session id, event ids written by SSE POSTs, in order
  deleted      \* session ids named by a DELETE so far

vars == <<sessions, heap, uuidCount, now, ticks, sweepDue, posts, streams,
          resp, emitted, deleted>>

NoResp == [op |-> "none"]

\* --------------------------------------------------------- session store
\* NewSession with the counter starting at 1
NewSessionAtOne(id, t) ==
  [id |-> id, createdAt |-> t, lastEventId |-> 1, pendingEvents |-> <<>>]

\* new Session object of createSession (lines 44-49)
NewSession(id, t) ==
  [id |-> id, createdAt |-> t, lastEventId |-> 0, pendingEvents |-> <<>>]

\* LookupExpired with `>=` for the `>` of line 58
LookupExpiredEarly(s, t) == t - s.createdAt >= SESSION_TTL_MS

\* LookupExpired with the TTL test left out
LookupExpiredNever(s, t) == FALSE

\* the TTL test of getSession (line 58)
LookupExpired(s, t) == t - s.createdAt > SESSION_TTL_MS

\* SweepExpired with >= for >: a session exactly TTL old is removed
SweepExpiredEarly(s, t) == t - s.createdAt >= SESSION_TTL_MS

\* the TTL test of the sweep (line 70)
SweepExpired(s, t) == t - s.createdAt > SESSION_TTL_MS

\* getSessionFound looking the id up among the Session objects ever made
\* instead of in the Map
getSessionFoundStale(id) ==
  /\ id \in DOMAIN heap
  /\ ~LookupExpired(heap[id], now)

\* getSession(id): whether it returns a Session ...
getSessionFound(id) ==
  /\ id \in sessions
  /\ ~LookupExpired(heap[id], now)

\* getSessionMap leaving an expired entry where it is
getSessionMapKeeps(id) == sessions

\* ... and the Map it leaves behind (an expired entry is evicted)
getSessionMap(id) ==
  IF id \in sessions /\ LookupExpired(heap[id], now)
    THEN sessions \ {id}
    ELSE sessions

\* ------------------------------------------------------------- requests
NoHeader == Undefined

\* Mcp-Session-Id values a client can send in the current state
HeaderIds ==
  {NoHeader, Str(BogusId)} \cup {Str(randomUUID(i)) : i \in 0..(uuidCount - 1)}

\* Accept header as its list of media types; includes() is a search in it
AcceptJson == [tag |-> "list", v |-> <<"application/json">>]
AcceptBoth == [tag |-> "list", v |-> <<"application/json", "text/event-stream">>]

Includes(h, tok) ==
  /\ h.tag = "list"
  /\ \E i \in 1..Len(h.v) : h.v[i] = tok

\* `req.headers.accept || ""` followed by includes("text/event-stream")
WantsStream(accept) ==
  LET acceptHeader == IF Truthy(accept) THEN accept ELSE Str("")
  IN  Includes(acceptHeader, "text/event-stream")

\* JSON values a body parses to
Null == [tag |-> "null"]
Obj(id, method, params) ==
  [tag |-> "object", id |-> id, method |-> method, params |-> params]
Params(name) == [tag |-> "object", name |-> name]

Json(v) == [kind |-> "json", value |-> v]
ReadError   == [kind |-> "readError"]   \* the request stream emits "error"
InvalidJson == [kind |-> "invalid"]     \* JSON.parse throws

Ping       == Json(Obj(Num(1), Str("ping"), Undefined))
CallSearch == Json(Obj(Num(1), Str("tools/call"), Params(Str("search"))))

\* member access of the destructuring `const { id, method, params } = request`
Member(v, f) ==
  IF v.tag = "object" /\ f \in DOMAIN v THEN v[f] ELSE Undefined

\* ToStr leaving the value out of the text
ToStrElided(v) == ""

\* `${v}` in a template literal
ToStr(v) ==
  CASE v.tag = "undefined" -> "undefined"
    [] v.tag = "string"    -> v.v
    [] OTHER               -> "[value]"

\* ---------------------------------------------------------- dispatcher
\* Result answering the empty object whatever the method computed
ResultEmpty(id, result) ==
  [jsonrpc |-> Str("2.0"), id |-> id, result |-> [empty |-> TRUE], error |-> Undefined]

Result(id, result) ==
  [jsonrpc |-> Str("2.0"), id |-> id, result |-> result, error |-> Undefined]
\* Error answering null for the id of a request that carries none
ErrorNullId(id, code, message) ==
  [jsonrpc |-> Str("2.0"), id |-> IF id = Undefined THEN Null ELSE id,
   result |-> Undefined, error |-> [code |-> code, message |-> message]]

\* Error with the result member set as well
ErrorWithResult(id, code, message) ==
  [jsonrpc |-> Str("2.0"), id |-> id, result |-> Null,
   error |-> [code |-> code, message |-> message]]

Error(id, code, message) ==
  [jsonrpc |-> Str("2.0"), id |-> id, result |-> Undefined,
   error |-> [code |-> code, message |-> message]]

\* ToolExecutor.execute: the ways the returned promise can settle
KnownTools == {"search"}
ToolOutcomes(name) ==
  IF name \in KnownTools
    THEN {[tag |-> "resolve", value |-> "hits"],
          [tag |-> "reject", message |-> <<"not found">>]}
    ELSE {[tag |-> "reject", message |-> <<"Unknown tool: ", name>>]}

\* processRequest without the test of params.name: the tool is invoked with
\* whatever the member holds
processRequestNameless(request) ==
  IF request.tag = "null" THEN [tag |-> "throw"]
  ELSE
    LET id     == Member(request, "id")
        method == Member(request, "method")
        params == Member(request, "params")
    IN  CASE method = Str("initialize") ->
               [tag |-> "return",
                response |-> Result(id, [protocolVersion |-> "2025-03-26",
                                         capabilities |-> {"tools", "resources"}])]
          [] method = Str("tools/list") ->
               [tag |-> "return", response |-> Result(id, [tools |-> "TOOL_DEFINITIONS"])]
          [] method = Str("tools/call") ->
               [tag |-> "await", id |-> id, name |-> ToStr(Member(params, "name"))]
          [] method = Str("ping") ->
               [tag |-> "return", response |-> Result(id, [empty |-> TRUE])]
          [] OTHER ->
               [tag |-> "return",
                response |-> Error(id, MethodNotFound,
                                   <<"Method not found: ", ToStr(method)>>)]

\* processRequest up to its first suspension (lines 240-290):
\*   "throw"   the destructuring of null throws outside the try block
\*   "await"   suspended in toolExecutor.execute(name, ...)
\*   "return"  settled without suspending
processRequest(request) ==
  IF request.tag = "null" THEN [tag |-> "throw"]
  ELSE
    LET id     == Member(request, "id")
        method == Member(request, "method")
        params == Member(request, "params")
    IN  CASE method = Str("initialize") ->
               [tag |-> "return",
                response |-> Result(id, [protocolVersion |-> "2025-03-26",
                                         capabilities |-> {"tools", "resources"}])]
          [] method = Str("tools/list") ->
               [tag |-> "return", response |-> Result(id, [tools |-> "TOOL_DEFINITIONS"])]
          [] method = Str("tools/call") ->
               IF ~Truthy(Member(params, "name"))
                 THEN [tag |-> "return",
                       response |-> Error(id, ApplicationError, <<"Tool name required">>)]
                 ELSE [tag |-> "await", id |-> id, name |-> Member(params, "name").v]
          [] method = Str("ping") ->
               [tag |-> "return", response |-> Result(id, [empty |-> TRUE])]
          [] OTHER ->
               [tag |-> "return",
                response |-> Error(id, MethodNotFound,
                                   <<"Method not found: ", ToStr(method)>>)]

\* processResume passing a rejection on as a result
processResumeSwallows(id, outcome) ==
  Result(id, [content |-> <<[type |-> "text", text |-> "error"]>>])

\* processResume taking what was raised for something other than an Error
processResumeGeneric(id, outcome) ==
  IF outcome.tag = "resolve"
    THEN Result(id, [content |-> <<[type |-> "text", text |-> outcome.value]>>])
    ELSE Error(id, ApplicationError, <<"Unknown error">>)

\* processRequest resumed with the settled tool promise (lines 263-299)
processResume(id, outcome) ==
  IF outcome.tag = "resolve"
    THEN Result(id, [content |-> <<[type |-> "text", text |-> outcome.value]>>])
    ELSE Error(id, ApplicationError, outcome.message)


\* ---------------------------------------------------------------- wire
\* JSON.stringify of a response: members that are undefined are left out
JsonStringify(r) ==
  [f \in {g \in DOMAIN r : r[g] # Undefined} |-> r[f]]

\* Frame without the `id:` line
FrameDataOnly(eventId, data) ==
  <<[line |-> "data", v |-> JsonStringify(data)]>>

\* the two res.write calls of one SSE frame: `id: <n>\n`, `data: <json>\n\n`
Frame(eventId, data) ==
  <<[line |-> "id", v |-> eventId], [line |-> "data", v |-> JsonStringify(data)]>>

\* CorsHeaders without the Access-Control-Expose-Headers line
CorsHeadersNoExpose ==
  [allowOrigin   |-> "*",
   allowMethods  |-> "GET, POST, DELETE, OPTIONS",
   allowHeaders  |-> "Content-Type, Mcp-Session-Id, Last-Event-ID",
   exposeHeaders |-> ""]

\* lines 101-104
CorsHeaders ==
  [allowOrigin   |-> "*",
   allowMethods  |-> "GET, POST, DELETE, OPTIONS",
   allowHeaders  |-> "Content-Type, Mcp-Session-Id, Last-Event-ID",
   exposeHeaders |-> "Mcp-Session-Id"]

\* What one step did to one HTTP exchange.  outcome is "responded" (status
\* line written), "pending" (handler suspended, nothing written yet) or
\* "rejected" (the promise of handleRequest rejected, nothing written).
\* arrived tells whether the request came in during this step; session is
\* the id of the Session object the handler ran on, "" when it reached none;
\* toolCalls counts the calls of toolExecutor.execute made for the request,
\* toolOutcome tells how the promise of such a call settled and raised is
\* the message of the Error it rejected with; stream is the outcome of the
\* Accept test for a POST that reached the dispatcher.
Wire(op, sid, arrived, outcome, status, fields) ==
  fields @@
  [op |-> op, path |-> "/mcp", sid |-> sid, arrived |-> arrived,
   outcome |-> outcome, status |-> status, cors |-> CorsHeaders,
   ctype |-> "", sessionHeader |-> Undefined, payload |-> Undefined,
   frames |-> <<>>, ended |-> (outcome = "responded"), session |-> "",
   body |-> Undefined, lastEventId |-> Undefined, toolCalls |-> 0,
   toolOutcome |-> "none", raised |-> <<>>, stream |-> FALSE]

ErrorBody(msg) == [tag |-> "object", error |-> msg]

\* AllocEvent with the increment lost: the id is taken, the counter stays
AllocEventLost(s) ==
  [session |-> s, eventId |-> s.lastEventId + 1]

\* AllocEvent counting in steps of two
AllocEventSkip(s) ==
  [session |-> [s EXCEPT !.lastEventId = @ + 2],
   eventId |-> s.lastEventId + 2]

\* AllocEvent as `session.lastEventId++`: the id taken is the old counter
AllocEventPostfix(s) ==
  [session |-> [s EXCEPT !.lastEventId = @ + 1],
   eventId |-> s.lastEventId]

\* `++session.lastEventId` (line 177): the object after it and the id taken
AllocEvent(s) ==
  [session |-> [s EXCEPT !.lastEventId = @ + 1],
   eventId |-> s.lastEventId + 1]

\* WriteResponse taking an event id before it looks at the Accept header
WriteResponseCounts(s, stream, response) ==
  LET a == AllocEvent(s)
  IN  IF stream
        THEN [session |-> a.session,
              streamed |-> TRUE,
              eventId |-> a.eventId,
              ctype |-> "text/event-stream",
              payload |-> Undefined,
              frames |-> Frame(a.eventId, response)]
        ELSE [session |-> a.session,
              streamed |-> FALSE,
              eventId |-> 0,
              ctype |-> "application/json",
              payload |-> JsonStringify(response),
              frames |-> <<>>]

\* lines 167-185: answer a POST with `response`, `stream` being the outcome
\* of the Accept test of lines 168-169 (request headers do not change while
\* the handler is suspended); yields the Session object after the call and
\* what was written
WriteResponse(s, stream, response) ==
  IF stream
    THEN LET a == AllocEvent(s)
         IN  [session |-> a.session,
              streamed |-> TRUE,
              eventId |-> a.eventId,
              ctype |-> "text/event-stream",
              payload |-> Undefined,
              frames |-> Frame(a.eventId, response)]
    ELSE [session |-> s,
          streamed |-> FALSE,
          eventId |-> 0,
          ctype |-> "application/json",
          payload |-> JsonStringify(response),
          frames |-> <<>>]

\* --------------------------------------------------------------- replay
DigitValue(c) ==
  CASE c = "0" -> 0 [] c = "1" -> 1 [] c = "2" -> 2 [] c = "3" -> 3
    [] c = "4" -> 4 [] c = "5" -> 5 [] c = "6" -> 6 [] c = "7" -> 7
    [] c = "8" -> 8 [] c = "9" -> 9 [] OTHER -> -1

IsDigit(c) == DigitValue(c) >= 0

RECURSIVE SkipSpace(_)
SkipSpace(cs) ==
  IF cs # <<>> /\ Head(cs) = " " THEN SkipSpace(Tail(cs)) ELSE cs

RECURSIVE DigitsValue(_, _)
DigitsValue(cs, acc) ==
  IF cs # <<>> /\ IsDigit(Head(cs))
    THEN DigitsValue(Tail(cs), 10 * acc + DigitValue(Head(cs)))
    ELSE acc

\* parseInt(text, 10): leading blanks, an optional sign, the longest run of
\* decimal digits; NaN when there is no digit
parseInt(cs) ==
  LET t    == SkipSpace(cs)
      neg  == t # <<>> /\ Head(t) = "-"
      sign == t # <<>> /\ Head(t) \in {"-", "+"}
      d    == IF sign THEN Tail(t) ELSE t
  IN  IF d = <<>> \/ ~IsDigit(Head(d))
        THEN NaN
        ELSE Num(IF neg THEN 0 - DigitsValue(d, 0) ELSE DigitsValue(d, 0))

\* `e.id > lastId`; every comparison with NaN is false
GreaterThan(n, lastId) == lastId.tag = "number" /\ n > lastId.v

\* Array.prototype.filter
RECURSIVE Filter(_, _)
Filter(events, lastId) ==
  IF events = <<>> THEN <<>>
  ELSE IF GreaterThan(Head(events).id, lastId)
         THEN <<Head(events)>> \o Filter(Tail(events), lastId)
         ELSE Filter(Tail(events), lastId)

RECURSIVE WriteAll(_)
WriteAll(events) ==
  IF events = <<>> THEN <<>>
  ELSE Frame(Head(events).id, Head(events).data) \o WriteAll(Tail(events))

\* Replay telling a client that sent no Last-Event-ID the current event id
ReplayAnnounces(s, lastEventId) ==
  IF Truthy(lastEventId)
    THEN WriteAll(Filter(s.pendingEvents, parseInt(lastEventId.v)))
    ELSE <<[line |-> "id", v |-> s.lastEventId]>>

\* lines 213-221: what a GET writes for a session and a Last-Event-ID header
Replay(s, lastEventId) ==
  IF Truthy(lastEventId)
    THEN WriteAll(Filter(s.pendingEvents, parseInt(lastEventId.v)))
    ELSE <<>>


\* -------------------------------------------------------------- routing
\* RouteOf without the OPTIONS test of lines 106-110
RouteOfNoPreflight(method, path) ==
  IF path = "/mcp" \/ path = "/"
    THEN CASE method = "POST"   -> "handlePost"
           [] method = "GET"    -> "handleGet"
           [] method = "DELETE" -> "handleDelete"
           [] OTHER             -> "405"
  ELSE IF path = "/health" THEN "health"
  ELSE "404"

\* handleRequest, lines 106-130: where a request goes
RouteOf(method, path) ==
  IF method = "OPTIONS" THEN "preflight"
  ELSE IF path = "/mcp" \/ path = "/"
         THEN CASE method = "POST"   -> "handlePost"
                [] method = "GET"    -> "handleGet"
                [] method = "DELETE" -> "handleDelete"
                [] OTHER             -> "405"
  ELSE IF path = "/health" THEN "health"
  ELSE "404"

McpPaths == {"/mcp", "/"}
Routed(method, handler) == \A path \in McpPaths : RouteOf(method, path) = handler

\* ----------------------------------------------------------------- Init
\* module load: empty Map, interval timer armed (lines 40, 67-74)
Init ==
  /\ sessions = {}
  /\ heap = <<>>
  /\ uuidCount = 0
  /\ now = 0
  /\ ticks = 0
  /\ sweepDue = SweepIntervalMs
  /\ posts = EmptyBag
  /\ streams = {}
  /\ resp = NoResp
  /\ emitted = [i \in SessionIds |-> <<>>]
  /\ deleted = {}

\* ----------------------------------------------------------------- POST
\* PostBadBody getting or creating the session before it parses the body
PostBadBodyCreates(sid, accept, body) ==
  /\ body.kind \in {"readError", "invalid"}
  /\ LET create == ~Truthy(sid) /\ uuidCount < MaxSessions
         id     == randomUUID(uuidCount)
     IN  /\ sessions' = IF create THEN sessions \cup {id} ELSE sessions
         /\ heap' = IF create THEN heap @@ (id :> NewSession(id, now)) ELSE heap
         /\ uuidCount' = IF create THEN uuidCount + 1 ELSE uuidCount
  /\ resp' = IF body.kind = "readError"
               THEN Wire("POST", sid, TRUE, "rejected", 0, [body |-> body])
               ELSE Wire("POST", sid, TRUE, "responded", 400,
                         [body |-> body,
                          ctype |-> "application/json",
                          payload |-> ErrorBody("Invalid JSON")])
  /\ UNCHANGED <<now, ticks, sweepDue, posts, streams, emitted, deleted>>

\* handlePost, lines 134-143: the body cannot be read, or is not JSON
PostBadBody(sid, accept, body) ==
  /\ Routed("POST", "handlePost")
  /\ body.kind \in {"readError", "invalid"}
  /\ resp' = IF body.kind = "readError"
               THEN Wire("POST", sid, TRUE, "rejected", 0, [body |-> body])
               ELSE Wire("POST", sid, TRUE, "responded", 400,
                         [body |-> body,
                          ctype |-> "application/json",
                          payload |-> ErrorBody("Invalid JSON")])
  /\ UNCHANGED <<sessions, heap, uuidCount, now, ticks, sweepDue, posts,
                 streams, emitted, deleted>>

\* PostNoSession creating a session in place of the one it did not find
PostNoSessionCreates(sid, accept, body) ==
  /\ body.kind = "json"
  /\ Truthy(sid)
  /\ ~getSessionFound(sid.v)
  /\ LET create == uuidCount < MaxSessions
         id     == randomUUID(uuidCount)
     IN  /\ sessions' = IF create THEN getSessionMap(sid.v) \cup {id}
                                  ELSE getSessionMap(sid.v)
         /\ heap' = IF create THEN heap @@ (id :> NewSession(id, now)) ELSE heap
         /\ uuidCount' = IF create THEN uuidCount + 1 ELSE uuidCount
  /\ resp' = Wire("POST", sid, TRUE, "responded", 404,
                  [body |-> body,
                   ctype |-> "application/json",
                   payload |-> ErrorBody("Session not found")])
  /\ UNCHANGED <<now, ticks, sweepDue, posts, streams, emitted, deleted>>

\* handlePost, lines 149-155: the named session is not in the Map, or expired
PostNoSession(sid, accept, body) ==
  /\ Routed("POST", "handlePost")
  /\ body.kind = "json"
  /\ Truthy(sid)
  /\ ~getSessionFound(sid.v)
  /\ sessions' = getSessionMap(sid.v)
  /\ resp' = Wire("POST", sid, TRUE, "responded", 404,
                  [body |-> body,
                   ctype |-> "application/json",
                   payload |-> ErrorBody("Session not found")])
  /\ UNCHANGED <<heap, uuidCount, now, ticks, sweepDue, posts, streams,
                 emitted, deleted>>

\* SessionHeader echoing the header of the request
SessionHeaderEcho(sid, id) == sid

\* res.setHeader("Mcp-Session-Id", sessionId) of line 162: sid is the header
\* of the request, id the id of the session found or created for it
SessionHeader(sid, id) == Str(id)

\* handlePost from line 145 on, for a request that reaches processRequest:
\* the session is looked up or created, the request dispatched and, unless
\* the dispatch suspends in the tool invocation, answered.
PostDispatch(sid, accept, body) ==
  /\ Routed("POST", "handlePost")
  /\ body.kind = "json"
  /\ IF Truthy(sid) THEN getSessionFound(sid.v) ELSE uuidCount < MaxSessions
  /\ LET create == ~Truthy(sid)
         id     == IF create THEN randomUUID(uuidCount) ELSE sid.v
         heap1  == IF create THEN heap @@ (id :> NewSession(id, now)) ELSE heap
         pr     == processRequest(body.value)
         base   == [body |-> body, session |-> id,
                    sessionHeader |-> SessionHeader(sid, id),
                    stream |-> WantsStream(accept)]
     IN  /\ sessions' = IF create THEN sessions \cup {id} ELSE sessions
         /\ uuidCount' = IF create THEN uuidCount + 1 ELSE uuidCount
         /\ CASE pr.tag = "throw" ->
                   /\ heap' = heap1
                   /\ resp' = Wire("POST", sid, TRUE, "rejected", 0, base)
                   /\ UNCHANGED <<posts, emitted>>
              [] pr.tag = "await" ->
                   /\ BagCardinality(posts) < MaxInflight
                   /\ posts' = posts (+) SetToBag({[session |-> id,
                                                    stream |-> WantsStream(accept),
                                                    body |-> body,
                                                    id |-> pr.id,
                                                    name |-> pr.name]})
                   /\ heap' = heap1
                   /\ resp' = Wire("POST", sid, TRUE, "pending", 0,
                                   [toolCalls |-> 1] @@ base)
                   /\ UNCHANGED emitted
              [] pr.tag = "return" ->
                   LET w == WriteResponse(heap1[id], WantsStream(accept), pr.response)
                   IN  /\ w.streamed => w.eventId <= MaxEvents
                       /\ heap' = [heap1 EXCEPT ![id] = w.session]
                       /\ emitted' = IF w.streamed
                                       THEN [emitted EXCEPT ![id] = Append(@, w.eventId)]
                                       ELSE emitted
                       /\ resp' = Wire("POST", sid, TRUE, "responded", 200,
                                       [ctype |-> w.ctype, payload |-> w.payload,
                                        frames |-> w.frames] @@ base)
                       /\ UNCHANGED posts
  /\ UNCHANGED <<now, ticks, sweepDue, streams, deleted>>

\* handlePost resumed when the tool promise settles (lines 165-185)
PostResume(p, outcome) ==
  /\ BagIn(p, posts)
  /\ outcome \in ToolOutcomes(p.name)
  /\ LET response == processResume(p.id, outcome)
         w == WriteResponse(heap[p.session], p.stream, response)
     IN  /\ w.streamed => w.eventId <= MaxEvents
         /\ heap' = [heap EXCEPT ![p.session] = w.session]
         /\ emitted' = IF w.streamed
                         THEN [emitted EXCEPT ![p.session] = Append(@, w.eventId)]
                         ELSE emitted
         /\ resp' = Wire("POST", Undefined, FALSE, "responded", 200,
                         [body |-> p.body,
                          session |-> p.session,
                          sessionHeader |-> Str(p.session),
                          ctype |-> w.ctype, payload |-> w.payload,
                          frames |-> w.frames, toolCalls |-> 1,
                          toolOutcome |-> outcome.tag,
                          raised |-> IF outcome.tag = "reject"
                                       THEN outcome.message ELSE <<>>,
                          stream |-> p.stream])
  /\ posts' = posts (-) SetToBag({p})
  /\ UNCHANGED <<sessions, uuidCount, now, ticks, sweepDue, streams, deleted>>

\* ------------------------------------------------------------------ GET
\* GetRefused answering 404 without returning: the stream headers are not
\* sent again, but the "close" listener is installed and the response is
\* tracked as an open stream
GetRefusedOpens(sid, lastEventId) ==
  /\ Routed("GET", "handleGet")
  /\ IF Truthy(sid) THEN ~getSessionFound(sid.v) ELSE TRUE
  /\ sessions' = IF Truthy(sid) THEN getSessionMap(sid.v) ELSE sessions
  /\ streams' = IF Truthy(sid) THEN streams \cup {sid.v} ELSE streams
  /\ resp' = Wire("GET", sid, TRUE, "responded",
                  IF Truthy(sid) THEN 404 ELSE 400,
                  [lastEventId |-> lastEventId,
                   ctype |-> "application/json",
                   payload |-> ErrorBody(IF Truthy(sid)
                                           THEN "Session not found"
                                           ELSE "Mcp-Session-Id header required")])
  /\ UNCHANGED <<heap, uuidCount, now, ticks, sweepDue, posts, emitted, deleted>>

\* handleGet, lines 193-204: no session header, or no such session
GetRefused(sid, lastEventId) ==
  /\ Routed("GET", "handleGet")
  /\ IF Truthy(sid) THEN ~getSessionFound(sid.v) ELSE TRUE
  /\ sessions' = IF Truthy(sid) THEN getSessionMap(sid.v) ELSE sessions
  /\ resp' = Wire("GET", sid, TRUE, "responded",
                  IF Truthy(sid) THEN 404 ELSE 400,
                  [lastEventId |-> lastEventId,
                   ctype |-> "application/json",
                   payload |-> ErrorBody(IF Truthy(sid)
                                           THEN "Session not found"
                                           ELSE "Mcp-Session-Id header required")])
  /\ UNCHANGED <<heap, uuidCount, now, ticks, sweepDue, posts, streams,
                 emitted, deleted>>

\* GetOpen starting the session's event numbering over for the new stream
GetOpenResets(sid, lastEventId) ==
  /\ Routed("GET", "handleGet")
  /\ Truthy(sid)
  /\ getSessionFound(sid.v)
  /\ sid.v \notin streams
  /\ streams' = streams \cup {sid.v}
  /\ heap' = [heap EXCEPT ![sid.v].lastEventId = 0]
  /\ resp' = Wire("GET", sid, TRUE, "responded", 200,
                  [lastEventId |-> lastEventId,
                   ctype |-> "text/event-stream",
                   sessionHeader |-> sid,
                   session |-> sid.v,
                   frames |-> Replay(heap[sid.v], lastEventId),
                   ended |-> FALSE])
  /\ UNCHANGED <<sessions, uuidCount, now, ticks, sweepDue, posts,
                 emitted, deleted>>

\* handleGet, lines 206-226: the stream is opened, missed events replayed,
\* and the response left open until the request's "close" event.  One open
\* stream is tracked per session.
GetOpen(sid, lastEventId) ==
  /\ Routed("GET", "handleGet")
  /\ Truthy(sid)
  /\ getSessionFound(sid.v)
  /\ sid.v \notin streams
  /\ streams' = streams \cup {sid.v}
  /\ resp' = Wire("GET", sid, TRUE, "responded", 200,
                  [lastEventId |-> lastEventId,
                   ctype |-> "text/event-stream",
                   sessionHeader |-> sid,
                   session |-> sid.v,
                   frames |-> Replay(heap[sid.v], lastEventId),
                   ended |-> FALSE])
  /\ UNCHANGED <<sessions, heap, uuidCount, now, ticks, sweepDue, posts,
                 emitted, deleted>>

\* the "close" listener of line 224: the client went away, res.end()
ClientClose(id) ==
  /\ id \in streams
  /\ streams' = streams \ {id}
  /\ resp' = [op |-> "close", session |-> id, ended |-> TRUE]
  /\ UNCHANGED <<sessions, heap, uuidCount, now, ticks, sweepDue, posts,
                 emitted, deleted>>

\* --------------------------------------------------------------- DELETE
\* Delete answering 204 without touching the Map
DeleteKeeps(sid) ==
  /\ Routed("DELETE", "handleDelete")
  /\ deleted' = IF Truthy(sid) THEN deleted \cup {sid.v} ELSE deleted
  /\ resp' = Wire("DELETE", sid, TRUE, "responded", 204, <<>>)
  /\ UNCHANGED <<sessions, heap, uuidCount, now, ticks, sweepDue, posts,
                 streams, emitted>>

\* Delete clearing the whole Map
DeleteClears(sid) ==
  /\ Routed("DELETE", "handleDelete")
  /\ sessions' = IF Truthy(sid) THEN {} ELSE sessions
  /\ deleted' = IF Truthy(sid) THEN deleted \cup {sid.v} ELSE deleted
  /\ resp' = Wire("DELETE", sid, TRUE, "responded", 204, <<>>)
  /\ UNCHANGED <<heap, uuidCount, now, ticks, sweepDue, posts, streams, emitted>>

\* Delete ending the GET stream that is open on the session it removes
DeleteEndsStream(sid) ==
  /\ Routed("DELETE", "handleDelete")
  /\ sessions' = IF Truthy(sid) THEN sessions \ {sid.v} ELSE sessions
  /\ streams' = IF Truthy(sid) THEN streams \ {sid.v} ELSE streams
  /\ deleted' = IF Truthy(sid) THEN deleted \cup {sid.v} ELSE deleted
  /\ resp' = Wire("DELETE", sid, TRUE, "responded", 204, <<>>)
  /\ UNCHANGED <<heap, uuidCount, now, ticks, sweepDue, posts, emitted>>

\* Delete answering 404 for an id that is not in the Map
DeleteStrict(sid) ==
  /\ Routed("DELETE", "handleDelete")
  /\ sessions' = IF Truthy(sid) THEN sessions \ {sid.v} ELSE sessions
  /\ deleted' = IF Truthy(sid) THEN deleted \cup {sid.v} ELSE deleted
  /\ resp' = Wire("DELETE", sid, TRUE, "responded",
                  IF Truthy(sid) /\ sid.v \notin sessions THEN 404 ELSE 204, <<>>)
  /\ UNCHANGED <<heap, uuidCount, now, ticks, sweepDue, posts, streams, emitted>>

\* handleDelete, lines 229-238
Delete(sid) ==
  /\ Routed("DELETE", "handleDelete")
  /\ sessions' = IF Truthy(sid) THEN sessions \ {sid.v} ELSE sessions
  /\ deleted' = IF Truthy(sid) THEN deleted \cup {sid.v} ELSE deleted
  /\ resp' = Wire("DELETE", sid, TRUE, "responded", 204, <<>>)
  /\ UNCHANGED <<heap, uuidCount, now, ticks, sweepDue, posts, streams, emitted>>

\* --------------------------------------------------------- other routes
\* handleRequest, lines 106-130, for the requests no session handler takes
Route(method, path) ==
  /\ RouteOf(method, path) \in {"preflight", "405", "health", "404"}
  /\ resp' = CASE RouteOf(method, path) = "preflight" ->
                    Wire(method, Undefined, TRUE, "responded", 204, [path |-> path])
               [] RouteOf(method, path) = "405" ->
                    Wire(method, Undefined, TRUE, "responded", 405, [path |-> path])
               [] RouteOf(method, path) = "health" ->
                    Wire(method, Undefined, TRUE, "responded", 200,
                         [path |-> path, ctype |-> "application/json",
                          payload |-> [tag |-> "object", status |-> "ok"]])
               [] OTHER ->
                    Wire(method, Undefined, TRUE, "responded", 404, [path |-> path])
  /\ UNCHANGED <<sessions, heap, uuidCount, now, ticks, sweepDue, posts,
                 streams, emitted, deleted>>

\* ------------------------------------------------------- clock and sweep
TickSteps == {1, SESSION_TTL_MS}

Tick(d) ==
  /\ ticks < MaxTicks
  /\ ticks' = ticks + 1
  /\ now' = now + d
  /\ resp' = NoResp
  /\ UNCHANGED <<sessions, heap, uuidCount, sweepDue, posts, streams,
                 emitted, deleted>>

\* Sweep ending the open stream of every session it removes
SweepEndsStreams ==
  /\ now >= sweepDue
  /\ sessions' = {id \in sessions : ~SweepExpired(heap[id], now)}
  /\ streams' = streams \ {id \in sessions : SweepExpired(heap[id], now)}
  /\ sweepDue' = now + SweepIntervalMs
  /\ resp' = [op |-> "sweep",
              removed |-> {id \in sessions : SweepExpired(heap[id], now)}]
  /\ UNCHANGED <<heap, uuidCount, now, ticks, posts, emitted, deleted>>

\* the setInterval callback, lines 67-74
Sweep ==
  /\ now >= sweepDue
  /\ sessions' = {id \in sessions : ~SweepExpired(heap[id], now)}
  /\ sweepDue' = now + SweepIntervalMs
  /\ resp' = [op |-> "sweep",
              removed |-> {id \in sessions : SweepExpired(heap[id], now)}]
  /\ UNCHANGED <<heap, uuidCount, now, ticks, posts, streams, emitted, deleted>>

\* The time until the interval timer is next due passes.  Followed only
\* while an entry older than the TTL is in the Map, which keeps the clock
\* bounded.
Elapse ==
  /\ now < sweepDue
  /\ \E id \in sessions : SweepExpired(heap[id], now)
  /\ now' = sweepDue
  /\ resp' = NoResp
  /\ UNCHANGED <<sessions, heap, uuidCount, ticks, sweepDue, posts, streams,
                 emitted, deleted>>

\* ----------------------------------------------------------------- Next
Methods == {"OPTIONS", "POST", "GET", "DELETE", "PUT"}
Paths   == {"/mcp", "/", "/health", "/other"}

\* inputs the session handlers are exercised with
Accepts      == {Undefined, AcceptBoth}
Bodies       == {InvalidJson, Ping, CallSearch}
LastEventIds == {Undefined, Chars(<<"0">>)}

\* every shape of body and header the handlers tell apart
RequestIds  == {Undefined, Null, Num(1)}
MethodNames == {Undefined, Str("initialize"), Str("tools/list"), Str("ping"),
                Str("Ping"), Str("frobnicate")}
ToolParams  == {Undefined, Params(Undefined), Params(Str("")),
                Params(Str("search")), Params(Str("missing_tool"))}
AllBodies ==
  {ReadError, InvalidJson, Json(Null), Json(Num(5))}
    \cup {Json(Obj(i, m, Undefined)) : i \in RequestIds, m \in MethodNames}
    \cup {Json(Obj(i, Str("tools/call"), q)) : i \in RequestIds, q \in ToolParams}
\* one parseable body for each way the dispatcher can go
MethodBodies ==
  {Json(Null), Json(Num(5))}
    \cup {Json(Obj(Num(1), m, Undefined)) : m \in MethodNames}
    \cup {Json(Obj(Num(1), Str("tools/call"), q)) :
            q \in {Undefined, Params(Str("search")), Params(Str("missing_tool"))}}
AllAccepts      == {Undefined, AcceptJson, AcceptBoth}
AllLastEventIds ==
  {Undefined, Chars(<<>>), Chars(<<"0">>), Chars(<<"1">>), Chars(<<"2">>),
   Chars(<<" ", "1">>), Chars(<<"1", "x">>), Chars(<<"-", "1">>), Chars(<<"x">>)}

\* The transport: every handler, the clock and the sweep
Next ==
  \/ \E sid \in HeaderIds, accept \in Accepts, body \in Bodies :
       PostBadBody(sid, accept, body)
  \/ \E sid \in HeaderIds, accept \in Accepts, body \in Bodies :
       PostNoSession(sid, accept, body)
  \/ \E sid \in HeaderIds, accept \in Accepts, body \in Bodies :
       PostDispatch(sid, accept, body)
  \/ \E p \in BagToSet(posts) : \E outcome \in ToolOutcomes(p.name) :
       PostResume(p, outcome)
  \/ \E sid \in HeaderIds, lastEventId \in LastEventIds :
       GetRefused(sid, lastEventId)
  \/ \E sid \in HeaderIds, lastEventId \in LastEventIds :
       GetOpen(sid, lastEventId)
  \/ \E id \in streams : ClientClose(id)
  \/ \E sid \in HeaderIds : Delete(sid)
  \/ \E method \in Methods, path \in Paths : Route(method, path)
  \/ \E d \in TickSteps : Tick(d)
  \/ Sweep

Spec == Init /\ [][Next]_vars

\* SSE and JSON POSTs, suspended and resumed in every order
NextEvents ==
  \/ \E sid \in HeaderIds, accept \in Accepts, body \in {Ping, CallSearch} :
       PostNoSession(sid, accept, body)
  \/ \E sid \in HeaderIds, accept \in Accepts, body \in {Ping, CallSearch} :
       PostDispatch(sid, accept, body)
  \/ \E p \in BagToSet(posts) : \E outcome \in ToolOutcomes(p.name) :
       PostResume(p, outcome)

SpecEvents == Init /\ [][NextEvents]_vars

\* SSE POSTs and the GET streams that replay them
NextReplay ==
  \/ \E sid \in HeaderIds, accept \in Accepts : PostNoSession(sid, accept, Ping)
  \/ \E sid \in HeaderIds, accept \in Accepts : PostDispatch(sid, accept, Ping)
  \/ \E sid \in HeaderIds, lastEventId \in AllLastEventIds :
       GetRefused(sid, lastEventId)
  \/ \E sid \in HeaderIds, lastEventId \in AllLastEventIds :
       GetOpen(sid, lastEventId)
  \/ \E id \in streams : ClientClose(id)

SpecReplay == Init /\ [][NextReplay]_vars

\* The dispatcher behind POST: one session, one POST suspended at a time,
\* every shape of body
NextDispatch ==
  \/ \E sid \in HeaderIds, accept \in AllAccepts, body \in AllBodies :
       PostBadBody(sid, accept, body)
  \/ \E sid \in HeaderIds, accept \in AllAccepts, body \in AllBodies :
       PostNoSession(sid, accept, body)
  \/ /\ posts = EmptyBag
     /\ uuidCount = 0
     /\ \E accept \in AllAccepts, body \in AllBodies :
          PostDispatch(NoHeader, accept, body)
  \/ /\ posts = EmptyBag
     /\ \E sid \in HeaderIds \ {NoHeader}, accept \in AllAccepts, body \in AllBodies :
          PostDispatch(sid, accept, body)
  \/ \E p \in BagToSet(posts) : \E outcome \in ToolOutcomes(p.name) :
       PostResume(p, outcome)

SpecDispatch == Init /\ [][NextDispatch]_vars

\* The session handlers with the clock standing still: one POST suspended
\* or one GET stream open at a time
NextRequests ==
  \/ \E sid \in HeaderIds : PostBadBody(sid, Undefined, InvalidJson)
  \/ \E sid \in HeaderIds : PostNoSession(sid, Undefined, Ping)
  \/ \E sid \in HeaderIds : PostDispatch(sid, Undefined, Ping)
  \/ /\ posts = EmptyBag
     /\ streams = {}
     /\ \E sid \in HeaderIds : PostDispatch(sid, AcceptBoth, CallSearch)
  \/ \E p \in BagToSet(posts) : \E outcome \in ToolOutcomes(p.name) :
       PostResume(p, outcome)
  \/ \E sid \in HeaderIds : GetRefused(sid, Undefined)
  \/ /\ streams = {}
     /\ posts = EmptyBag
     /\ \E sid \in HeaderIds : GetOpen(sid, Undefined)
  \/ \E id \in streams : ClientClose(id)
  \/ \E sid \in HeaderIds \ {Str(BogusId)} : Delete(sid)

SpecRequests == Init /\ [][NextRequests]_vars

\* DELETE and the lookups after it: JSON-mode POSTs, one of them suspended
\* at a time, GET and DELETE
NextDelete ==
  \/ \E sid \in HeaderIds, body \in {ReadError, InvalidJson} :
       PostBadBody(sid, Undefined, body)
  \/ \E sid \in HeaderIds : PostNoSession(sid, Undefined, Ping)
  \/ \E sid \in HeaderIds : PostDispatch(sid, Undefined, Ping)
  \/ /\ posts = EmptyBag
     /\ \E sid \in HeaderIds : PostDispatch(sid, Undefined, CallSearch)
  \/ \E p \in BagToSet(posts) : \E outcome \in ToolOutcomes(p.name) :
       PostResume(p, outcome)
  \/ \E sid \in HeaderIds : GetRefused(sid, Undefined)
  \/ /\ streams = {}
     /\ \E sid \in HeaderIds : GetOpen(sid, Undefined)
  \/ \E id \in streams : ClientClose(id)
  \/ \E sid \in HeaderIds : Delete(sid)

SpecDelete == Init /\ [][NextDelete]_vars

\* One session ageing: lookups, a suspended POST, DELETE, the clock, the sweep
NextExpiry ==
  \/ \E sid \in HeaderIds, body \in {ReadError, InvalidJson} :
       PostBadBody(sid, AcceptBoth, body)
  \/ \E sid \in HeaderIds : PostNoSession(sid, AcceptBoth, Ping)
  \/ /\ uuidCount = 0
     /\ PostDispatch(NoHeader, AcceptBoth, Ping)
  \/ \E sid \in HeaderIds \ {NoHeader} : PostDispatch(sid, AcceptBoth, Ping)
  \/ /\ posts = EmptyBag
     /\ \E sid \in HeaderIds \ {NoHeader} : PostDispatch(sid, AcceptBoth, CallSearch)
  \/ \E p \in BagToSet(posts) : \E outcome \in ToolOutcomes(p.name) :
       PostResume(p, outcome)
  \/ \E sid \in HeaderIds : GetRefused(sid, Undefined)
  \/ \E sid \in HeaderIds : GetOpen(sid, Undefined)
  \/ \E id \in streams : ClientClose(id)
  \/ \E sid \in HeaderIds \ {Str(BogusId)} : Delete(sid)
  \/ \E d \in TickSteps : Tick(d)
  \/ Sweep

SpecExpiry == Init /\ [][NextExpiry]_vars

\* The router in front of the handlers: every (method, path), with sessions
\* being created, streamed to and deleted in between
NextRouting ==
  \/ \E method \in Methods, path \in Paths : Route(method, path)
  \/ \E sid \in HeaderIds : PostBadBody(sid, Undefined, InvalidJson)
  \/ \E sid \in HeaderIds : PostNoSession(sid, Undefined, Ping)
  \/ /\ uuidCount = 0
     /\ \E accept \in Accepts : PostDispatch(NoHeader, accept, Ping)
  \/ /\ uuidCount > 0
     /\ PostDispatch(NoHeader, Undefined, Ping)
  \/ \E sid \in HeaderIds \ {NoHeader} : PostDispatch(sid, Undefined, Ping)
  \/ \E sid \in HeaderIds : GetRefused(sid, Undefined)
  \/ /\ streams = {}
     /\ \E sid \in HeaderIds : GetOpen(sid, Undefined)
  \/ \E id \in streams : ClientClose(id)
  \/ \E sid \in HeaderIds : Delete(sid)

SpecRouting == Init /\ [][NextRouting]_vars

\* The interval timer: sessions are created, looked up and deleted at will,
\* the clock advances, and the timer callback runs once it is due.  Node
\* runs a due timer in the next turn of the event loop, and time passes:
\* hence the weak fairness of Sweep and Elapse.
NextSweep ==
  \/ /\ uuidCount < MaxSessions
     /\ PostDispatch(NoHeader, Undefined, Ping)
  \/ \E sid \in HeaderIds \ {NoHeader} : PostNoSession(sid, Undefined, Ping)
  \/ \E sid \in HeaderIds \ {NoHeader, Str(BogusId)} : Delete(sid)
  \/ \E d \in TickSteps : Tick(d)
  \/ Elapse
  \/ Sweep

SpecSweep ==
  Init /\ [][NextSweep]_vars /\ WF_vars(Sweep) /\ WF_vars(Elapse)

\* Lookups while sessions age: sessions created by an SSE POST, JSON-mode
\* POSTs on them, GETs with every shape of Last-Event-ID, one stream open
\* at a time, and the clock
NextLookup ==
  \/ \E sid \in HeaderIds \ {NoHeader} : PostNoSession(sid, Undefined, Ping)
  \/ PostDispatch(NoHeader, AcceptBoth, Ping)
  \/ \E sid \in HeaderIds \ {NoHeader} : PostDispatch(sid, Undefined, Ping)
  \/ \E sid \in HeaderIds : GetRefused(sid, Undefined)
  \/ /\ streams = {}
     /\ \E sid \in HeaderIds, lastEventId \in AllLastEventIds :
          GetOpen(sid, lastEventId)
  \/ \E id \in streams : ClientClose(id)
  \/ \E d \in TickSteps : Tick(d)

SpecLookup == Init /\ [][NextLookup]_vars

\* Session creation: POSTs without a session header, with every kind of
\* body and Accept header, one of them suspended at a time, and DELETE
NextCreate ==
  \/ \E accept \in AllAccepts : PostBadBody(NoHeader, accept, InvalidJson)
  \/ /\ posts = EmptyBag
     /\ \E accept \in AllAccepts, body \in MethodBodies :
          PostDispatch(NoHeader, accept, body)
  \/ \E p \in BagToSet(posts) : \E outcome \in ToolOutcomes(p.name) :
       PostResume(p, outcome)
  \/ \E sid \in HeaderIds \ {NoHeader, Str(BogusId)} : Delete(sid)

SpecCreate == Init /\ [][NextCreate]_vars

\* POSTs that name a session, with every shape of body that can be received,
\* while one session is created, deleted and ageing
RefusedBodies ==
  {InvalidJson, Json(Null), Ping, CallSearch,
   Json(Obj(Undefined, Str("frobnicate"), Undefined))}

NextRefuse ==
  \/ /\ uuidCount = 0
     /\ PostDispatch(NoHeader, Undefined, Ping)
  \/ \E sid \in HeaderIds \ {NoHeader} : PostBadBody(sid, AcceptBoth, InvalidJson)
  \/ \E sid \in HeaderIds \ {NoHeader}, body \in RefusedBodies \ {InvalidJson} :
       PostNoSession(sid, AcceptBoth, body)
  \/ /\ posts = EmptyBag
     /\ \E sid \in HeaderIds \ {NoHeader} : PostDispatch(sid, AcceptBoth, CallSearch)
  \/ \E p \in BagToSet(posts) : \E outcome \in ToolOutcomes(p.name) :
       PostResume(p, outcome)
  \/ \E sid \in HeaderIds \ {NoHeader, Str(BogusId)} : Delete(sid)
  \/ \E d \in TickSteps : Tick(d)

SpecRefuse == Init /\ [][NextRefuse]_vars

\* Two tools/call requests in flight on one session.  A request with
\* JSON-RPC id 2 is sent only while one with id 1 is suspended, and one with
\* id 1 only while nothing is suspended, so of two suspended requests the one
\* with id 2 arrived later.
CallSecond == Json(Obj(Num(2), Str("tools/call"), Params(Str("search"))))

NextConcurrent ==
  \/ \E accept \in Accepts : PostDispatch(NoHeader, accept, Ping)
  \/ /\ posts = EmptyBag
     /\ \E sid \in HeaderIds \ {NoHeader}, accept \in Accepts :
          PostDispatch(sid, accept, CallSearch)
  \/ /\ \E p \in BagToSet(posts) : p.body = CallSearch
     /\ \A p \in BagToSet(posts) : p.body # CallSecond
     /\ \E sid \in HeaderIds \ {NoHeader} : PostDispatch(sid, AcceptBoth, CallSecond)
  \/ \E p \in BagToSet(posts) : \E outcome \in ToolOutcomes(p.name) :
       PostResume(p, outcome)

SpecConcurrent == Init /\ [][NextConcurrent]_vars

\* A stream opened on a session that is then deleted, swept or found expired,
\* with GETs and POSTs naming the session before and after
NextOrphan ==
  \/ /\ uuidCount = 0
     /\ PostDispatch(NoHeader, Undefined, Ping)
  \/ \E sid \in HeaderIds \ {NoHeader, Str(BogusId)} :
       \/ PostNoSession(sid, Undefined, Ping)
       \/ PostDispatch(sid, Undefined, Ping)
       \/ GetRefused(sid, Undefined)
       \/ GetOpen(sid, Undefined)
       \/ Delete(sid)
  \/ \E id \in streams : ClientClose(id)
  \/ \E d \in TickSteps : Tick(d)
  \/ Sweep

SpecOrphan == Init /\ [][NextOrphan]_vars

TypeOK ==
  /\ sessions \subseteq DOMAIN heap
  /\ uuidCount \in 0..MaxSessions
  /\ \A id \in DOMAIN heap : heap[id].lastEventId \in 0..MaxEvents

\* =================================================================== claims
\* the ids written in the `id:` lines of a sequence of frames
RECURSIVE FrameIds(_)
FrameIds(frames) ==
  IF frames = <<>> THEN <<>>
  ELSE IF Head(frames).line = "id"
         THEN <<Head(frames).v>> \o FrameIds(Tail(frames))
         ELSE FrameIds(Tail(frames))

\* a POST that was answered as an SSE stream in the step just taken
SsePost == resp.op = "POST" /\ resp.outcome = "responded" /\ resp.frames # <<>>

\* C1: whatever the interleaving of SSE POSTs on a session, the event ids
\* written for it are strictly increasing in emission order, so none repeats.
C1_EventIdsStrictlyIncreasing ==
  \A s \in SessionIds :
    \A i, j \in 1..Len(emitted[s]) : i < j => emitted[s][i] < emitted[s][j]

\* C1 witness: a suspended SSE POST on a session has just been resumed and
\* written the second id of that session while another SSE POST on the same
\* session is still suspended.
C1_Witness ==
  /\ SsePost
  /\ ~resp.arrived
  /\ Len(emitted[resp.session]) = 2
  /\ \E p \in BagToSet(posts) : p.session = resp.session /\ p.stream

\* C2: the buffer of every session holds exactly one frame per emitted event
\* id: as many frames as lastEventId, with ids 1..lastEventId in order.
C2_BufferHoldsEveryFrame ==
  \A s \in DOMAIN heap :
    /\ Len(heap[s].pendingEvents) = heap[s].lastEventId
    /\ \A k \in 1..Len(heap[s].pendingEvents) : heap[s].pendingEvents[k].id = k

\* the integer a Last-Event-ID header of decimal digits stands for
IsNumeral(h) ==
  /\ h.tag = "chars"
  /\ h.v # <<>>
  /\ \A i \in 1..Len(h.v) : IsDigit(h.v[i])

RECURSIVE NumeralValue(_)
NumeralValue(cs) ==
  IF cs = <<>> THEN 0
  ELSE 10 * NumeralValue(SubSeq(cs, 1, Len(cs) - 1)) + DigitValue(cs[Len(cs)])

IdsAfter(ids, n) == SelectSeq(ids, LAMBDA e : e > n)

\* C3: a GET on a live session with Last-Event-ID = N writes exactly the
\* frames emitted so far for the session whose id exceeds N, in ascending
\* order.
C3_ReplayWritesMissedFrames ==
  (/\ resp.op = "GET"
   /\ resp.status = 200
   /\ IsNumeral(resp.lastEventId))
    => FrameIds(resp.frames)
         = IdsAfter(emitted[resp.session], NumeralValue(resp.lastEventId.v))

\* C4: a POST without a session header runs on a session created for it, a
\* POST carrying a session id runs on that session, and the k-th SSE frame
\* emitted for a session has id k: the counter is never reset.
C4_SequenceContinues ==
  /\ \A s \in SessionIds :
       /\ \A k \in 1..Len(emitted[s]) : emitted[s][k] = k
       /\ s \in DOMAIN heap => heap[s].lastEventId = Len(emitted[s])
  /\ (resp.op = "POST" /\ resp.arrived /\ resp.outcome \in {"responded", "pending"}
        /\ resp.status # 404)
       => IF Truthy(resp.sid)
            THEN resp.session = resp.sid.v
            ELSE resp.session = randomUUID(uuidCount - 1)

\* C4 witness: a POST carrying the id of a session that has already emitted
\* frame 1 has just been answered with frame 2.
C4_Witness ==
  /\ SsePost
  /\ resp.arrived
  /\ Truthy(resp.sid)
  /\ FrameIds(resp.frames) = <<2>>
  /\ emitted[resp.sid.v] = <<1, 2>>


\* a GET or POST that came in during the step just taken
Arrived(ops) == resp.op \in ops /\ resp.arrived

\* the session named by the request just handled is older than the TTL
NamesExpired ==
  /\ Truthy(resp.sid)
  /\ resp.sid.v \in DOMAIN heap
  /\ now - heap[resp.sid.v].createdAt > SESSION_TTL_MS

\* the POST just handled has a body JSON.parse accepts
ParsedPost == resp.op = "POST" /\ resp.body.kind = "json"

\* C5 as claimed: every GET or POST carrying the id of a session created
\* more than TTL ago is answered 404.
C5_ExpiredAlways404 ==
  (Arrived({"GET", "POST"}) /\ NamesExpired) => resp.status = 404

\* C5 amended: such a request never reaches the session; a GET, and a POST
\* whose body parses, is answered 404 and leaves the id out of the Map, while
\* a POST whose body does not parse is answered 400.
C5_ExpiredUnreachable ==
  (Arrived({"GET", "POST"}) /\ NamesExpired) =>
    /\ resp.session = ""
    /\ (resp.op = "GET" \/ ParsedPost) =>
         resp.status = 404 /\ resp.sid.v \notin sessions
    /\ (resp.op = "POST" /\ resp.body.kind = "invalid") => resp.status = 400

\* C5 witness: a session that has emitted a frame since its creation is named
\* by a GET after its TTL has passed, and the GET is answered 404.
C5_Witness ==
  /\ Arrived({"GET"})
  /\ NamesExpired
  /\ heap[resp.sid.v].lastEventId > 0
  /\ resp.status = 404

\* C6 as claimed: DELETE is always answered 204, and every GET or POST that
\* carries an id named by an earlier DELETE is answered 404.
C6_DeletedAlways404 ==
  /\ resp.op = "DELETE" => resp.status = 204
  /\ (Arrived({"GET", "POST"}) /\ Truthy(resp.sid) /\ resp.sid.v \in deleted)
       => resp.status = 404

\* C6 amended: DELETE is always answered 204; after it a request carrying the
\* id never reaches a session: a GET, and a POST whose body parses, is
\* answered 404, and a POST whose body does not parse 400.
C6_DeletedUnreachable ==
  /\ resp.op = "DELETE" =>
       /\ resp.status = 204
       /\ Truthy(resp.sid) => resp.sid.v \notin sessions
  /\ (Arrived({"GET", "POST"}) /\ Truthy(resp.sid) /\ resp.sid.v \in deleted) =>
       /\ resp.session = ""
       /\ (resp.op = "GET" \/ ParsedPost) => resp.status = 404
       /\ (resp.op = "POST" /\ resp.body.kind = "invalid") => resp.status = 400

\* C6 witness: a session that existed was named by a DELETE, and a later GET
\* carrying its id has been answered 404.
C6_Witness ==
  /\ Arrived({"GET"})
  /\ Truthy(resp.sid)
  /\ resp.sid.v \in deleted
  /\ resp.sid.v \in DOMAIN heap
  /\ resp.status = 404

\* C7: once a session is out of the Map it stays out, also when a POST that
\* was suspended on it resumes; that POST is answered (200) on the object it
\* holds, and every lookup of the id by a later GET or POST is answered 404.
C7_RemovalMidUse ==
  [][\A s \in DOMAIN heap \ sessions :
       /\ s \notin sessions'
       /\ (resp'.op = "POST" /\ ~resp'.arrived /\ resp'.session = s)
            => resp'.outcome = "responded" /\ resp'.status = 200
       /\ (/\ resp'.op \in {"GET", "POST"}
           /\ resp'.arrived
           /\ resp'.sid = Str(s)
           /\ resp'.op = "POST" => resp'.body.kind = "json")
            => resp'.status = 404]_vars

\* C7 witness: a POST suspended in the tool invocation has just resumed and
\* been answered after its session left the Map.
C7_Witness ==
  /\ resp.op = "POST"
  /\ ~resp.arrived
  /\ resp.status = 200
  /\ resp.session \notin sessions

\* C8: every request is answered; a failure inside a handler is answered
\* with status 500 and the promise of handleRequest never rejects.
C8_FailuresAnswered500 ==
  resp.op = "POST" => resp.outcome # "rejected"

\* the session a request aimed at: the one it named, else the one it ran on
Target(r) == IF Truthy(r.sid) THEN r.sid.v ELSE r.session

\* C9: a POST, GET or DELETE step that neither names session b nor runs on
\* it leaves b in the Map with its counter and buffer as they were.
C9_OtherSessionsUntouched ==
  [][\A b \in sessions :
       (resp'.op \in {"POST", "GET", "DELETE"} /\ Target(resp') # b)
         => b \in sessions' /\ heap'[b] = heap[b]]_vars

\* C9 witness: a DELETE naming one session has just been answered while the
\* other session, which has emitted a frame, is still in the Map.
C9_Witness ==
  /\ resp.op = "DELETE"
  /\ Truthy(resp.sid)
  /\ resp.sid.v \in DOMAIN heap
  /\ \E b \in sessions : b # resp.sid.v /\ heap[b].lastEventId > 0

\* the JSON-RPC response a POST was answered with, in either mode
RpcOf(r) == IF r.frames # <<>> THEN r.frames[2].v ELSE r.payload

\* the request of the POST just handled is a protocol-tier failure: unknown
\* method, tools/call without a name, or a tool invocation that raised
ProtocolFailure ==
  LET request == resp.body.value
      method  == Member(request, "method")
  IN  \/ method \notin {Str("initialize"), Str("tools/list"), Str("tools/call"),
                        Str("ping")}
      \/ method = Str("tools/call") /\ ~Truthy(Member(Member(request, "params"), "name"))
      \/ resp.toolOutcome = "reject"

\* C10: a POST that reaches the dispatcher with a protocol-tier failure is
\* answered with status 200 and a JSON-RPC response whose error member is
\* set and whose result member is not, in JSON mode and in SSE mode.
C10_ProtocolFailures200 ==
  (/\ resp.op = "POST"
   /\ resp.outcome = "responded"
   /\ resp.session # ""
   /\ ProtocolFailure)
    => /\ resp.status = 200
       /\ "error" \in DOMAIN RpcOf(resp)
       /\ "result" \notin DOMAIN RpcOf(resp)
       /\ RpcOf(resp).error.code \in {MethodNotFound, ApplicationError}

\* C10 witness: a tool invocation has raised and the POST was answered as an
\* SSE frame carrying the error.
C10_Witness ==
  /\ SsePost
  /\ resp.toolOutcome = "reject"
  /\ "error" \in DOMAIN RpcOf(resp)

\* C11: a POST whose body JSON.parse rejects is answered 400 with a body
\* that has an error member and no JSON-RPC envelope, and changes nothing:
\* no session is created or evicted, no event id is allocated, and the tool
\* executor is not called.
C11_BadJsonChangesNothing ==
  [][(resp'.op = "POST" /\ resp'.arrived /\ resp'.body.kind = "invalid") =>
       /\ resp'.outcome = "responded"
       /\ resp'.status = 400
       /\ "error" \in DOMAIN resp'.payload
       /\ DOMAIN resp'.payload \cap {"jsonrpc", "id", "result"} = {}
       /\ resp'.frames = <<>>
       /\ resp'.toolCalls = 0
       /\ UNCHANGED <<sessions, heap, uuidCount, posts, emitted>>]_vars

\* C11 witness: a POST without a session header and with an unparseable body
\* has been answered 400 while a session that has emitted a frame exists.
C11_Witness ==
  /\ resp.op = "POST"
  /\ resp.body.kind = "invalid"
  /\ ~Truthy(resp.sid)
  /\ resp.status = 400
  /\ uuidCount < MaxSessions
  /\ \E s \in sessions : heap[s].lastEventId > 0

\* C12: a tools/call POST whose tool invocation raised is answered with
\* status 200 and a JSON-RPC error of code -32000 whose message is the
\* message that was raised.
C12_RaisedIsApplicationError ==
  (resp.op = "POST" /\ resp.toolOutcome = "reject") =>
    /\ Member(resp.body.value, "method") = Str("tools/call")
    /\ resp.outcome = "responded"
    /\ resp.status = 200
    /\ "error" \in DOMAIN RpcOf(resp)
    /\ RpcOf(resp).error.code = ApplicationError
    /\ RpcOf(resp).error.message = resp.raised
    /\ resp.raised # <<>>

\* C12 witness: the search tool raised "not found" and the POST was answered
\* in JSON mode with that message.
C12_Witness ==
  /\ resp.op = "POST"
  /\ resp.toolOutcome = "reject"
  /\ resp.raised = <<"not found">>
  /\ resp.frames = <<>>
  /\ resp.payload.error.message = <<"not found">>

\* the POST just handled reached the dispatcher with a tools/call request
\* whose params.name is absent or falsy
NamelessCall ==
  /\ resp.op = "POST"
  /\ resp.session # ""
  /\ Member(resp.body.value, "method") = Str("tools/call")
  /\ ~Truthy(Member(Member(resp.body.value, "params"), "name"))

\* C13: a tools/call request without params.name is answered at once with a
\* JSON-RPC error of code -32000 and message "Tool name required", and the
\* tool executor is not called for it.
C13_ToolNameRequired ==
  NamelessCall =>
    /\ resp.outcome = "responded"
    /\ resp.arrived
    /\ resp.toolCalls = 0
    /\ "error" \in DOMAIN RpcOf(resp)
    /\ RpcOf(resp).error.code = ApplicationError
    /\ RpcOf(resp).error.message = <<"Tool name required">>

\* C13 witness: a tools/call request with no params member at all has been
\* answered with the error as an SSE frame.
C13_Witness ==
  /\ NamelessCall
  /\ Member(resp.body.value, "params") = Undefined
  /\ SsePost
  /\ RpcOf(resp).error.message = <<"Tool name required">>

\* the methods the switch of processRequest has a case for
KnownMethods ==
  {Str("initialize"), Str("tools/list"), Str("tools/call"), Str("ping")}

\* the POST just handled reached the dispatcher with a request whose method
\* is none of the known ones
UnknownMethod ==
  /\ resp.op = "POST"
  /\ resp.session # ""
  /\ resp.body.value.tag # "null"
  /\ Member(resp.body.value, "method") \notin KnownMethods

\* C14: a request whose method is not initialize, tools/list, tools/call or
\* ping is answered at once with a JSON-RPC error of code -32601 whose
\* message ends in the method name as sent, and the tool executor is not
\* called for it.
C14_MethodNotFound ==
  UnknownMethod =>
    LET method == Member(resp.body.value, "method")
    IN  /\ resp.outcome = "responded"
        /\ resp.arrived
        /\ resp.toolCalls = 0
        /\ "error" \in DOMAIN RpcOf(resp)
        /\ "result" \notin DOMAIN RpcOf(resp)
        /\ RpcOf(resp).error.code = MethodNotFound
        /\ RpcOf(resp).error.message[1] = "Method not found: "
        /\ method.tag = "string" => RpcOf(resp).error.message[2] = method.v
        /\ method = Undefined => RpcOf(resp).error.message[2] = "undefined"

\* C14 witness: a request for the method "Ping", which differs from a known
\* one in case only, has been answered -32601 naming it.
C14_Witness ==
  /\ UnknownMethod
  /\ Member(resp.body.value, "method") = Str("Ping")
  /\ RpcOf(resp).error.code = MethodNotFound
  /\ RpcOf(resp).error.message = <<"Method not found: ", "Ping">>

\* the POST just handled was answered with a JSON-RPC response
Dispatched ==
  /\ resp.op = "POST"
  /\ resp.outcome = "responded"
  /\ resp.session # ""

\* C15: the JSON-RPC response a POST is answered with carries the id of its
\* request unchanged, and no id member when the request has none, whatever
\* the method and whether the response is a result or an error.
C15_IdEchoed ==
  Dispatched =>
    LET id == Member(resp.body.value, "id")
    IN  IF id = Undefined
          THEN "id" \notin DOMAIN RpcOf(resp)
          ELSE "id" \in DOMAIN RpcOf(resp) /\ RpcOf(resp).id = id

\* C15 witness: a tools/call request without an id whose tool raised has
\* been answered with an error that has no id member.
C15_Witness ==
  /\ Dispatched
  /\ resp.toolOutcome = "reject"
  /\ Member(resp.body.value, "id") = Undefined
  /\ "error" \in DOMAIN RpcOf(resp)
  /\ "id" \notin DOMAIN RpcOf(resp)

\* C16: the JSON-RPC response a POST is answered with has a result member
\* or an error member and never both, whatever the method and however the
\* tool invocation settled.
C16_ResultXorError ==
  Dispatched =>
    ("result" \in DOMAIN RpcOf(resp)) # ("error" \in DOMAIN RpcOf(resp))

\* C16 witness: a tool invocation has resolved and the POST was answered
\* with a result and no error.
C16_Witness ==
  /\ Dispatched
  /\ resp.toolOutcome = "resolve"
  /\ "result" \in DOMAIN RpcOf(resp)
  /\ "error" \notin DOMAIN RpcOf(resp)

C18_GetNeedsLiveSession ==
  [][resp'.op = "GET" =>
       LET sid  == resp'.sid
           live == /\ Truthy(sid)
                   /\ sid.v \in sessions
                   /\ ~(now - heap[sid.v].createdAt > SESSION_TTL_MS)
       IN  /\ ~Truthy(sid) => resp'.status = 400
           /\ (Truthy(sid) /\ ~live) => resp'.status = 404
           /\ live => /\ resp'.status = 200
                       /\ ~resp'.ended
                       /\ sid.v \in streams'
           /\ resp'.status # 200 =>
                /\ resp'.frames = <<>>
                /\ resp'.ended
                /\ resp'.session = ""
                /\ streams' = streams]_vars

\* C18 witness: a GET naming a session that outlived its TTL and was never
\* deleted has been answered 404, the session is out of the Map and no
\* stream is open.
C18_Witness ==
  /\ resp.op = "GET"
  /\ resp.status = 404
  /\ NamesExpired
  /\ resp.sid.v \notin deleted
  /\ resp.sid.v \notin sessions
  /\ streams = {}

\* C19: a request that is not OPTIONS and whose path is neither /mcp nor
\* /health is answered 404, and a request to /mcp whose method is not POST,
\* GET, DELETE or OPTIONS is answered 405.
C19_OtherPaths404 ==
  (resp.op \in Methods /\ resp.arrived) =>
    /\ (resp.op # "OPTIONS" /\ resp.path \notin {"/mcp", "/health"})
         => resp.status = 404
    /\ (resp.path = "/mcp" /\ resp.op \notin {"POST", "GET", "DELETE", "OPTIONS"})
         => resp.status = 405

\* C20: every response that is written, whatever the route and the status,
\* allows any origin, allows the methods and request headers of the
\* transport, and exposes the Mcp-Session-Id header.
C20_CorsOnEveryResponse ==
  (resp.op \in Methods /\ resp.outcome = "responded") =>
    /\ resp.cors.allowOrigin = "*"
    /\ resp.cors.allowMethods = "GET, POST, DELETE, OPTIONS"
    /\ resp.cors.allowHeaders = "Content-Type, Mcp-Session-Id, Last-Event-ID"
    /\ resp.cors.exposeHeaders = "Mcp-Session-Id"

\* C20 witness: a 4xx response of the router itself (an unsupported method on
\* /mcp, or an unknown path) has been written with the headers while a
\* session exists.
C20_Witness ==
  /\ resp.op \in Methods
  /\ resp.status \in {404, 405}
  /\ resp.payload = Undefined
  /\ sessions # {}
  /\ resp.cors.exposeHeaders = "Mcp-Session-Id"

\* the session is in the Map and older than the TTL
ExpiredInStore(s) ==
  /\ s \in sessions
  /\ now - heap[s].createdAt > SESSION_TTL_MS

\* C22: with the timer callback run whenever it is due, a session that is in
\* the Map and older than the TTL is eventually out of the Map, whether or
\* not a request names it; and a run of the callback removes only sessions
\* older than the TTL.
C22_SweepRemovesExpired ==
  /\ \A s \in SessionIds : ExpiredInStore(s) ~> (s \notin sessions)
  /\ [](resp.op = "sweep" =>
          /\ \A s \in resp.removed : now - heap[s].createdAt > SESSION_TTL_MS
          /\ \A s \in sessions : ~(now - heap[s].createdAt > SESSION_TTL_MS))

\* C22 witness: the callback has just removed a session that no request had
\* named since its creation, while a younger session stayed in the Map.
C22_Witness ==
  /\ resp.op = "sweep"
  /\ resp.removed # {}
  /\ resp.removed \cap deleted = {}
  /\ sessions # {}

\* C23: a GET answered 200 leaves its response open; while it is open no
\* step writes a frame to it (the frames a step writes go to a POST's own
\* response); and the response is ended by the "close" event of its request
\* and by nothing else: not by a POST, a DELETE of its session, the expiry of
\* the session or the sweep.
C23_StreamOpenUntilClientCloses ==
  [][/\ \A id \in streams :
          id \notin streams' =>
            resp'.op = "close" /\ resp'.session = id /\ resp'.ended
     /\ (streams # {} /\ resp'.op \in Methods /\ resp'.frames # <<>>)
          => resp'.op = "POST"
     /\ (resp'.op = "GET" /\ resp'.status = 200)
          => ~resp'.ended /\ resp'.session \in streams'
     /\ resp'.op = "close"
          => resp'.session \in streams /\ resp'.session \notin streams']_vars

\* C23 witness: a DELETE naming the session of an open stream has been
\* answered and the stream is still open.
C23_Witness ==
  /\ resp.op = "DELETE"
  /\ Truthy(resp.sid)
  /\ resp.sid.v \in streams
  /\ resp.sid.v \notin sessions

\* the SSE frames the step just taken wrote for session s
FramesFor(r, s) ==
  IF r.op = "POST" /\ r.outcome = "responded" /\ r.session = s
    THEN Len(FrameIds(r.frames))
    ELSE 0

\* C24: in every step the lastEventId of a session grows by the number of
\* SSE frames the step wrote for that session, which is 0 or 1, counted from
\* 0 for a session the step created; so it never decreases and is left alone
\* by JSON-mode POSTs, GETs, DELETEs, refused requests and requests on other
\* sessions.
C24_CounterCountsFrames ==
  [][\A s \in DOMAIN heap' :
       /\ heap'[s].lastEventId
            = (IF s \in DOMAIN heap THEN heap[s].lastEventId ELSE 0)
                + FramesFor(resp', s)
       /\ FramesFor(resp', s) \in {0, 1}]_vars

\* C24 witness: a GET has opened a stream on a session that has emitted one
\* frame, and the counter of the session is 1.
C24_Witness ==
  /\ resp.op = "GET"
  /\ resp.status = 200
  /\ emitted[resp.session] = <<1>>
  /\ heap[resp.session].lastEventId = 1

\* C25: a dispatched POST whose Accept header contains text/event-stream is
\* answered with status 200 as text/event-stream with exactly one frame, an
\* id line carrying the session's new lastEventId followed by a data line
\* carrying the JSON-RPC response, and the response is ended in the same
\* step: it is not left open.
C25_SsePostOneShot ==
  (/\ resp.op = "POST"
   /\ resp.outcome = "responded"
   /\ resp.session # ""
   /\ resp.stream) =>
    /\ resp.status = 200
    /\ resp.ctype = "text/event-stream"
    /\ Len(resp.frames) = 2
    /\ resp.frames[1].line = "id"
    /\ resp.frames[1].v = heap[resp.session].lastEventId
    /\ resp.frames[2].line = "data"
    /\ "jsonrpc" \in DOMAIN resp.frames[2].v
    /\ resp.payload = Undefined
    /\ resp.ended
    /\ resp.session \notin streams

\* C25 witness: a POST suspended in a tool invocation that resolved has been
\* answered with its one frame and ended.
C25_Witness ==
  /\ SsePost
  /\ ~resp.arrived
  /\ resp.toolOutcome = "resolve"
  /\ Len(resp.frames) = 2
  /\ resp.ended

\* C26: a GET, whatever its Last-Event-ID header, changes no Session object
\* and creates no session, and the only entry it can take out of the Map is
\* the one it names when that one is older than the TTL.
C26_GetReadOnly ==
  [][resp'.op = "GET" =>
       /\ heap' = heap
       /\ emitted' = emitted
       /\ uuidCount' = uuidCount
       /\ sessions' \subseteq sessions
       /\ \A s \in sessions \ sessions' :
            /\ resp'.sid = Str(s)
            /\ now - heap[s].createdAt > SESSION_TTL_MS]_vars

\* C26 witness: a GET with a Last-Event-ID that is not a number has opened a
\* stream on a session that has emitted a frame, with a second session in
\* the Map.
C26_Witness ==
  /\ resp.op = "GET"
  /\ resp.status = 200
  /\ resp.lastEventId = Chars(<<"x">>)
  /\ heap[resp.session].lastEventId = 1
  /\ Cardinality(sessions) = 2

\* the step taken is a request that calls getSession: a GET or a POST with a
\* parseable body, carrying a session id
LooksUp(r) ==
  /\ r.op \in {"GET", "POST"}
  /\ r.arrived
  /\ Truthy(r.sid)
  /\ r.op = "POST" => r.body.kind = "json"

\* C27: a lookup of an id whose entry is older than the TTL finds nothing
\* (the request is answered 404 and reaches no session) and takes exactly
\* that entry out of the Map; a lookup of an id whose entry is not older than
\* the TTL returns that session (the request runs on it) and leaves the Map
\* and the entry's creation time as they are.
C27_LookupEvictsExpired ==
  [][LooksUp(resp') =>
       LET id == resp'.sid.v
       IN  IF id \in sessions
             THEN IF now - heap[id].createdAt > SESSION_TTL_MS
                    THEN /\ resp'.status = 404
                         /\ resp'.session = ""
                         /\ sessions' = sessions \ {id}
                    ELSE /\ resp'.status = 200
                         /\ resp'.session = id
                         /\ sessions' = sessions
                         /\ heap'[id].createdAt = heap[id].createdAt
             ELSE /\ resp'.status = 404
                  /\ sessions' = sessions]_vars

\* C27 witness: a POST naming a session older than the TTL has been answered
\* 404, that session is out of the Map and a younger one is still in it.
C27_Witness ==
  /\ resp.op = "POST"
  /\ resp.status = 404
  /\ NamesExpired
  /\ resp.sid.v \notin sessions
  /\ sessions # {}

\* C28: every DELETE is answered 204, takes the session it names out of the
\* Map and nothing else, and changes no Session object; a DELETE that
\* follows a DELETE of the same id, or names an id that is not in the Map,
\* leaves the Map as it is.
C28_DeleteIdempotent ==
  [][resp'.op = "DELETE" =>
       /\ resp'.status = 204
       /\ sessions' = (IF Truthy(resp'.sid)
                         THEN sessions \ {resp'.sid.v} ELSE sessions)
       /\ heap' = heap
       /\ (resp.op = "DELETE" /\ resp.sid = resp'.sid) => sessions' = sessions
       /\ (Truthy(resp'.sid) /\ resp'.sid.v \notin sessions)
            => sessions' = sessions]_vars

\* C28 witness: a DELETE naming an id that never was in the Map has been
\* answered 204 with a session in the Map.
C28_Witness ==
  /\ resp.op = "DELETE"
  /\ resp.sid = Str(BogusId)
  /\ resp.status = 204
  /\ sessions # {}

\* C29: a POST with a parseable body and no session header, whatever its
\* method and Accept header, puts exactly one new entry into the Map: a
\* Session object that did not exist, under its own id, created now, whose
\* counter and buffer hold nothing but the frame of this very POST, and on
\* which the POST runs.
C29_PostWithoutHeaderCreates ==
  [][(/\ resp'.op = "POST"
      /\ resp'.arrived
      /\ resp'.body.kind = "json"
      /\ ~Truthy(resp'.sid)) =>
       \E id \in DOMAIN heap' \ DOMAIN heap :
         /\ DOMAIN heap' = DOMAIN heap \cup {id}
         /\ id \notin sessions
         /\ sessions' = sessions \cup {id}
         /\ heap'[id].id = id
         /\ heap'[id].createdAt = now
         /\ heap'[id].lastEventId = FramesFor(resp', id)
         /\ Len(heap'[id].pendingEvents) <= FramesFor(resp', id)
         /\ resp'.session = id]_vars

\* C29 witness: a POST without a session header asking for an unknown method
\* has been answered with an error as an SSE frame, and the Map holds a
\* second session.
C29_Witness ==
  /\ SsePost
  /\ resp.arrived
  /\ ~Truthy(resp.sid)
  /\ "error" \in DOMAIN RpcOf(resp)
  /\ Cardinality(sessions) = 2

\* C30: the Mcp-Session-Id header of the response to a dispatched POST is
\* the id of the session the POST ran on, which is the one its request named
\* or, for a request without the header, the one created for it; also when
\* the JSON-RPC response is an error.
C30_SessionHeaderNamesSession ==
  Dispatched =>
    /\ resp.sessionHeader = Str(resp.session)
    /\ resp.session \in DOMAIN heap
    /\ resp.arrived =>
         IF Truthy(resp.sid)
           THEN resp.session = resp.sid.v
           ELSE resp.session = randomUUID(uuidCount - 1)

\* C30 witness: a POST without a session header whose request has no
\* tools/call name has been answered with an error, under the header of the
\* session created for it.
C30_Witness ==
  /\ Dispatched
  /\ resp.arrived
  /\ ~Truthy(resp.sid)
  /\ NamelessCall
  /\ resp.sessionHeader = Str(randomUUID(uuidCount - 1))

\* C31: an OPTIONS request, whatever its path, is answered 204, and any
\* other request to /health is answered 200; neither runs on a session, and
\* both leave the Map, the Session objects, the suspended POSTs and the open
\* streams as they are.
C31_PreflightAndHealthTouchNothing ==
  [][(/\ resp'.op \in Methods
      /\ resp'.arrived
      /\ (resp'.op = "OPTIONS" \/ resp'.path = "/health")) =>
       /\ resp'.status = (IF resp'.op = "OPTIONS" THEN 204 ELSE 200)
       /\ resp'.outcome = "responded"
       /\ resp'.session = ""
       /\ resp'.op # "OPTIONS" => resp'.payload = [tag |-> "object", status |-> "ok"]
       /\ UNCHANGED <<sessions, heap, uuidCount, posts, streams, emitted>>]_vars

\* C31 witness: a POST to /health has been answered 200 while the Map holds
\* a session with an open stream.
C31_Witness ==
  /\ resp.op = "POST"
  /\ resp.path = "/health"
  /\ resp.status = 200
  /\ sessions \cap streams # {}

\* the method of the request in r, Undefined when it has none
MethodOf(r) == Member(r.body.value, "method")

\* the POST just handled reached the dispatcher with one of the three
\* methods that need no tool
LocalMethod(r) ==
  /\ r.op = "POST"
  /\ r.arrived
  /\ r.session # ""
  /\ r.body.value.tag = "object"
  /\ MethodOf(r) \in {Str("initialize"), Str("tools/list"), Str("ping")}

\* C32: a POST whose method is initialize, tools/list or ping is answered at
\* once with a result and no error, without a tool invocation being started;
\* the result of ping is the empty object and the result of tools/list holds
\* the static registry; apart from the session the POST runs on, no Session
\* object, suspended POST or stream changes.
C32_LocalMethodsReturnResult ==
  [][LocalMethod(resp') =>
       /\ resp'.outcome = "responded"
       /\ resp'.status = 200
       /\ resp'.toolCalls = 0
       /\ resp'.toolOutcome = "none"
       /\ posts' = posts
       /\ streams' = streams
       /\ "result" \in DOMAIN RpcOf(resp')
       /\ "error" \notin DOMAIN RpcOf(resp')
       /\ MethodOf(resp') = Str("ping") => RpcOf(resp').result = [empty |-> TRUE]
       /\ MethodOf(resp') = Str("tools/list") =>
            RpcOf(resp').result = [tools |-> "TOOL_DEFINITIONS"]
       /\ MethodOf(resp') = Str("initialize") =>
            "protocolVersion" \in DOMAIN RpcOf(resp').result
       /\ \A s \in DOMAIN heap : s # resp'.session => heap'[s] = heap[s]
       /\ sessions \subseteq sessions'
       /\ sessions' \ sessions \subseteq {resp'.session}]_vars

\* C32 witness: a tools/list request sent as an SSE POST on an existing
\* session has been answered with the registry.
C32_Witness ==
  /\ LocalMethod(resp)
  /\ Truthy(resp.sid)
  /\ resp.stream
  /\ MethodOf(resp) = Str("tools/list")
  /\ RpcOf(resp).result = [tools |-> "TOOL_DEFINITIONS"]

\* the POST r names an id that is not in the Map s, or whose entry in it is
\* older than the TTL at time t
NamesNoLiveSession(r, s, t) ==
  /\ r.op = "POST"
  /\ r.arrived
  /\ Truthy(r.sid)
  /\ r.body.kind \in {"json", "invalid"}
  /\ r.sid.v \in s => t - heap[r.sid.v].createdAt > SESSION_TTL_MS

\* C33 as claimed: every POST whose Mcp-Session-Id names no live session is
\* answered 404.
C33_UnknownSessionAlways404 ==
  NamesNoLiveSession(resp, sessions, now) => resp.status = 404

\* C33 amended: a POST whose Mcp-Session-Id names no live session is
\* answered 404 when its body parses and 400 when it does not; either way it
\* runs on no session, no JSON-RPC response is produced, no tool invocation
\* is started, no session is created, no Session object changes, and the
\* Map loses at most the expired entry the POST named.
C33_UnknownSessionRefused ==
  [][NamesNoLiveSession(resp', sessions, now) =>
       /\ resp'.status = (IF resp'.body.kind = "json" THEN 404 ELSE 400)
       /\ resp'.outcome = "responded"
       /\ resp'.session = ""
       /\ resp'.sessionHeader = Undefined
       /\ "jsonrpc" \notin DOMAIN resp'.payload
       /\ resp'.frames = <<>>
       /\ resp'.toolCalls = 0
       /\ posts' = posts
       /\ heap' = heap
       /\ uuidCount' = uuidCount
       /\ sessions' \subseteq sessions
       /\ sessions \ sessions' \subseteq {resp'.sid.v}
       /\ resp'.body.kind = "invalid" => sessions' = sessions]_vars

\* C33 witness: a tools/call POST naming an id that was never issued has
\* been answered 404 while another session is live and fewer sessions than
\* the bound have been created.
C33_Witness ==
  /\ resp.op = "POST"
  /\ resp.status = 404
  /\ resp.sid = Str(BogusId)
  /\ resp.body = CallSearch
  /\ sessions # {}
  /\ uuidCount < MaxSessions

\* r is the SSE response of a POST whose tool invocation has settled
SseDone(r) ==
  /\ r.op = "POST"
  /\ ~r.arrived
  /\ r.stream
  /\ r.frames # <<>>

\* the event id on the frame of r
EventIdOf(r) == r.frames[1].v

\* C34: a POST that is suspended on a tool invocation takes no event id when
\* it arrives; when the invocation settles, its SSE frame gets the session's
\* counter of that moment plus one, so of two SSE POSTs of one session that
\* settle one after the other the later one has the larger id, whichever of
\* them arrived first.
C34_IdsInCompletionOrder ==
  [][/\ (resp'.op = "POST" /\ resp'.outcome = "pending") =>
          /\ emitted' = emitted
          /\ resp'.frames = <<>>
          /\ resp'.session \in DOMAIN heap =>
               heap'[resp'.session].lastEventId = heap[resp'.session].lastEventId
     /\ SseDone(resp') =>
          /\ EventIdOf(resp') = heap[resp'.session].lastEventId + 1
          /\ heap'[resp'.session].lastEventId = EventIdOf(resp')
     /\ (SseDone(resp) /\ SseDone(resp') /\ resp'.session = resp.session) =>
          EventIdOf(resp') > EventIdOf(resp)]_vars

\* C34 witness: of two SSE POSTs suspended on one session, the one that
\* arrived second has settled first and got event id 1, while the one that
\* arrived first is still suspended.
C34_Witness ==
  /\ SseDone(resp)
  /\ resp.body = CallSecond
  /\ EventIdOf(resp) = 1
  /\ \E p \in BagToSet(posts) :
       p.body = CallSearch /\ p.stream /\ p.session = resp.session

ReachesTool(r, m) ==
  /\ r.body.kind = "json"
  /\ Truthy(r.sid) =>
       /\ r.sid.v \in m
       /\ now - heap[r.sid.v].createdAt <= SESSION_TTL_MS
  /\ r.body.value.tag = "object"
  /\ MethodOf(r) = Str("tools/call")
  /\ Truthy(Member(Member(r.body.value, "params"), "name"))

\* C36: a POST starts one tool invocation when its body parses, its session
\* lookup succeeds or it names no session, its method is tools/call and
\* params.name is set, and none otherwise; the invocation it started is the
\* one whose outcome its response reports, and no second one is started when
\* the POST resumes.
C36_AtMostOneInvocation ==
  [][/\ (resp'.op = "POST" /\ resp'.arrived) =>
          /\ resp'.toolCalls = (IF ReachesTool(resp', sessions) THEN 1 ELSE 0)
          /\ BagCardinality(posts') = BagCardinality(posts) + resp'.toolCalls
          /\ (resp'.outcome = "pending") = (resp'.toolCalls = 1)
     /\ (resp'.op = "POST" /\ ~resp'.arrived) =>
          /\ resp'.toolCalls = 1
          /\ resp'.outcome = "responded"
          /\ ReachesTool(resp', sessions)
          /\ BagCardinality(posts') = BagCardinality(posts) - 1]_vars

\* C36 witness: a tools/call POST without header has been answered after
\* the one invocation it started was rejected.
C36_Witness ==
  /\ resp.op = "POST"
  /\ ~resp.arrived
  /\ resp.toolCalls = 1
  /\ resp.toolOutcome = "reject"
  /\ posts = EmptyBag

\* the age of session id at the current clock value
Age(id) == now - heap[id].createdAt

\* C37: a lookup of an id that is in the Map answers 404 exactly when the
\* sweep, run at that clock value, would remove the entry, and the sweep
\* removes exactly the entries a lookup at that clock value would refuse; an
\* entry whose age equals the TTL is found by the lookup and kept by the
\* sweep.
C37_ExpiryStrictAndShared ==
  [][/\ \A id \in sessions :
          (LooksUp(resp') /\ resp'.sid = Str(id)) =>
            /\ (resp'.status = 404) = SweepExpired(heap[id], now)
            /\ (resp'.status = 404) = (Age(id) > SESSION_TTL_MS)
            /\ Age(id) = SESSION_TTL_MS =>
                 /\ resp'.status = 200
                 /\ resp'.session = id
                 /\ id \in sessions'
     /\ resp'.op = "sweep" =>
          \A id \in sessions :
            /\ (id \notin sessions') = LookupExpired(heap[id], now)
            /\ (id \notin sessions') = (Age(id) > SESSION_TTL_MS)
            /\ Age(id) = SESSION_TTL_MS => id \in sessions']_vars

\* C37 witness: the sweep has run over a session whose age equals the TTL
\* and left it in the Map.
C37_Witness ==
  /\ resp.op = "sweep"
  /\ resp.removed = {}
  /\ \E id \in sessions : Age(id) = SESSION_TTL_MS

\* C38: a GET answered 200 whose request has no Last-Event-ID header (or an
\* empty one) writes no frame, however many frames the session has emitted,
\* and leaves its response open as the session's stream.
C38_NoHeaderNoReplay ==
  (resp.op = "GET" /\ resp.status = 200 /\ ~Truthy(resp.lastEventId)) =>
    /\ resp.frames = <<>>
    /\ resp.ctype = "text/event-stream"
    /\ ~resp.ended
    /\ resp.session \in streams

\* C38 witness: a GET without Last-Event-ID has opened a stream on a session
\* that has emitted two frames.
C38_Witness ==
  /\ resp.op = "GET"
  /\ resp.status = 200
  /\ resp.lastEventId = Undefined
  /\ Len(emitted[resp.session]) = 2
  /\ resp.session \in streams


====
